---- MODULE Spec2Model ----
(***************************************************************************)
(* A model of fetch.py: one run of main() under the __main__ guard.        *)
(*                                                                         *)
(* The run is a sequential program; `pc` is the position in main().  The   *)
(* outside world (HTTP statuses, payloads, what the headless browser       *)
(* returns or whether it throws) is chosen nondeterministically at the     *)
(* step that consumes it.  http_get is modelled one loop iteration per     *)
(* step so that requests and delays can be counted.                        *)
(*                                                                         *)
(* Spec is the run of main(); SpecFair is Spec with each step of the run    *)
(* eventually taken.  SpecNormalize, SpecClassify, SpecParse, SpecExtract  *)
(* and SpecDist apply normalize_entries, is_html_payload,                  *)
(* parse_feed_bytes, the HTML and page-state extractors and ensure_dist on *)
(* their own, to arguments drawn from bounded sets, while main() does not  *)
(* run.                                                                    *)
(*                                                                         *)
(* Abstractions (stated once, used everywhere):                            *)
(*  - a raw record (feedparser entry, extractor item) is a function from   *)
(*    key names to values, read with Get as dict.get reads it;             *)
(*  - a date field value is [kind, t]: kind "empty" is the empty string,   *)
(*    "bad" a string dateutil rejects, "naive" a date without a zone,      *)
(*    "aware" a date with a zone; t is the instant (UTC for "aware");      *)
(*  - a payload carries its bytes (as numbers 0..255) and, beside them,    *)
(*    what feedparser and the HTML extractors make of them; a header value *)
(*    is the sequence of its characters' codes;                            *)
(*  - every request is answered with a status (requests' own transport     *)
(*    exceptions are not part of the input space);                         *)
(*  - render_index and the file writes succeed.                            *)
(***************************************************************************)
EXTENDS Integers, Sequences, FiniteSets, TLC

\* ------------------------------------------------------------------ bounds

\* The largest ITEM_LIMIT tried (limits are 1..MaxLimit).
MaxLimit == 3
\* Jitter is random.random() in [0,1); it is drawn from MaxJitter+1 steps.
MaxJitter == 1
\* The longest record sequence handed to a function applied on its own.
MaxLen == 3

\* Longest sequence of ld+json blocks, and of anchors, on a page handed to an
\* extractor on its own.
MaxBlocks == 2
MaxAnchors == 2

\* ------------------------------------------------------- program constants

\* A loop that allows one request too many.
AttemptBudgetOffByOne == 3 + 1
\* range(3): the request budget of one http_get call.
AttemptBudget == 3
\* time.sleep(1.2 + random.random()): the base delay, in tenths of a second.
BaseDelay == 12
\* datetime.min (as an aware UTC instant): below every date of the model.
DatetimeMin == 0
\* content[:200]
HeadLen == 200

\* os.getenv("ITEM_LIMIT", "25"): the limit of a run that sets none.
ITEM_LIMIT == 25

\* ----------------------------------------------------------- dict helpers

\* dict.get(k, d)
Get(e, k, d) == IF k \in DOMAIN e THEN e[k] ELSE d

\* A date value that is absent (dict.get returned None).
NoneDate == [kind |-> "none", t |-> 0]
EmptyDate == [kind |-> "empty", t |-> 0]
BadDate == [kind |-> "bad", t |-> 0]
Naive(t) == [kind |-> "naive", t |-> t]
Aware(t) == [kind |-> "aware", t |-> t]

\* A link that is absent (dict.get returned None).
NoneLink == "<None>"

\* `if val:` on a date field: None and "" are falsy.
Truthy(val) == val.kind \notin {"none", "empty"}

\* dparser.parse(val) returns (does not raise) on this value.
Parses(val) == val.kind \in {"naive", "aware"}

\* F applied to the value of v.  TLC evaluates the argument of an operator,
\* and a name bound by LET, each time it is used when it decides whether an
\* action is enabled; written this way, v is evaluated once.
Once(v, F(_)) == CHOOSE r \in {F(x) : x \in {v}} : TRUE

\* Two steps, each of which returns a list or raises: the exception of the
\* first that raises, else both lists.
Then(one, more) ==
    Once(<<one, more>>, LAMBDA p :
        IF p[1].exc # "none" THEN [exc |-> p[1].exc, val |-> <<>>]
        ELSE IF p[2].exc # "none" THEN [exc |-> p[2].exc, val |-> <<>>]
        ELSE [exc |-> "none", val |-> p[1].val \o p[2].val])

\* ------------------------------------------------------ normalize_entries

DateKeys == <<"published", "updated", "created", "datePublished">>

\* The loop over the candidate keys: the first truthy value that parses wins
\* (break); a parse exception is swallowed and the loop goes on to the next key.
RECURSIVE PickDate(_, _)
PickDate(e, i) ==
    IF i > Len(DateKeys) THEN NoneDate
    ELSE LET val == Get(e, DateKeys[i], NoneDate) IN
         IF Truthy(val) /\ Parses(val) THEN val ELSE PickDate(e, i + 1)

\* to_iso: a naive datetime is taken as UTC, an aware one converted to UTC;
\* the text is determined by the UTC instant.  "" (no date) is <<>>.
to_iso(dt) == IF dt.kind = "none" THEN <<>> ELSE <<dt.t>>

\* summary = e.get("summary", e.get("description", "")), else the value of the
\* first content block ("content" is the sequence of the blocks' values).
Summary(e) ==
    LET s0 == Get(e, "summary", Get(e, "description", ""))
        c  == Get(e, "content", <<>>)
    IN IF s0 = "" /\ c # <<>> THEN c[1] ELSE s0

\* One iteration of the loop body of normalize_entries.
NormOne(e) ==
    LET dt == PickDate(e, 1) IN
    [title    |-> Get(e, "title", "Untitled"),
     link     |-> Get(e, "link", NoneLink),
     date     |-> dt,
     date_iso |-> to_iso(dt),
     summary  |-> Summary(e)]

\* The sort key: x["date"] or datetime.min.replace(tzinfo=utc)
SortKey(x) == IF x.date.kind = "none" THEN Aware(DatetimeMin) ELSE x.date

\* Comparing an offset-naive with an offset-aware datetime raises TypeError.
\* A comparison sort of two or more keys compares some naive key with some
\* aware key as soon as both kinds are present.
SortRaises(s) ==
    /\ Len(s) >= 2
    /\ \E i \in 1..Len(s) : SortKey(s[i]).kind = "naive"
    /\ \E i \in 1..Len(s) : SortKey(s[i]).kind = "aware"

\* Insert x behind every element whose key is >= its own: a stable sort,
\* descending (list.sort(reverse=True) keeps equal keys in input order).
RECURSIVE InsertDesc(_, _)
InsertDesc(s, x) ==
    IF s = <<>> THEN <<x>>
    ELSE IF SortKey(Head(s)).t >= SortKey(x).t
         THEN <<Head(s)>> \o InsertDesc(Tail(s), x)
         ELSE <<x>> \o s

RECURSIVE SortDesc(_)
SortDesc(s) ==
    IF s = <<>> THEN <<>>
    ELSE Once(SortDesc(SubSeq(s, 1, Len(s) - 1)), LAMBDA t : InsertDesc(t, s[Len(s)]))

\* norm[:limit], limit >= 0
Truncate(s, limit) == SubSeq(s, 1, IF limit < Len(s) THEN limit ELSE Len(s))

NormAll(entries) == Once(entries, LAMBDA es : [i \in 1..Len(es) |-> NormOne(es[i])])

\* A normalize_entries that does not sort.
normalize_entries_unsorted(entries, limit) ==
    [exc |-> "none", val |-> Truncate(NormAll(entries), limit)]
\* A normalize_entries that cuts to the limit before it sorts.
normalize_entries_cut_first(entries, limit) ==
    Once(Truncate(NormAll(entries), limit), LAMBDA norm :
        IF SortRaises(norm)
        THEN [exc |-> "TypeError", val |-> <<>>]
        ELSE [exc |-> "none", val |-> SortDesc(norm)])

\* normalize_entries(entries, limit): the returned list, or the TypeError of
\* the sort.
normalize_entries(entries, limit) ==
    Once(NormAll(entries), LAMBDA norm :
        IF SortRaises(norm)
        THEN [exc |-> "TypeError", val |-> <<>>]
        ELSE [exc |-> "none", val |-> Truncate(SortDesc(norm), limit)])

\* ------------------------------------------------------------- extractors

\* The trailing "seen/uniq" loop of normalize_posts and of parse_jsonld_posts
\* and the merge loop of playwright_collect_archive: keep the first item of
\* every non-empty link.
RECURSIVE UniqByLink(_, _)
UniqByLink(its, seen) ==
    IF its = <<>> THEN <<>>
    ELSE Once(<<Head(its), Get(Head(its), "link", "")>>, LAMBDA p :
            IF p[2] # "" /\ p[2] \notin seen
            THEN <<p[1]>> \o UniqByLink(Tail(its), seen \cup {p[2]})
            ELSE UniqByLink(Tail(its), seen))

\* A loop that keeps every item.
UniqSeenKeepAll(its, seen) == its
\* The trailing "seen/uniq" loop of parse_archive_links: keep the first item
\* of every link.
RECURSIVE UniqSeen(_, _)
UniqSeen(its, seen) ==
    IF its = <<>> THEN <<>>
    ELSE Once(<<Head(its), Head(its).link>>, LAMBDA p :
            IF p[2] \notin seen
            THEN <<p[1]>> \o UniqSeen(Tail(its), seen \cup {p[2]})
            ELSE UniqSeen(Tail(its), seen))

\* ---- JSON values, as json.loads returns them
\* k is the Python type; s the text of a str; v the elements of a list or the
\* (key, value) pairs of a dict, in order; d the date a str spells ("date":
\* a non-empty str that is meant as a date, which dateutil parses or rejects).
JNull == [k |-> "null", s |-> "", v |-> <<>>, d |-> NoneDate]
JNum == [k |-> "num", s |-> "", v |-> <<>>, d |-> NoneDate]
JStr(s) == [k |-> "str", s |-> s, v |-> <<>>, d |-> NoneDate]
JDate(d) == [k |-> "date", s |-> "", v |-> <<>>, d |-> d]
JList(vs) == [k |-> "list", s |-> "", v |-> vs, d |-> NoneDate]
JDict(pairs) == [k |-> "dict", s |-> "", v |-> pairs, d |-> NoneDate]
Pair(key, val) == [key |-> key, val |-> val]

\* `key in node`, node.get(key) (None when absent), node.get(key, default)
JHas(node, key) == Once(node, LAMBDA n : \E i \in 1..Len(n.v) : n.v[i].key = key)
JGetOr(node, key, default) ==
    Once(node, LAMBDA n :
        IF JHas(n, key)
        THEN n.v[CHOOSE i \in 1..Len(n.v) : n.v[i].key = key].val
        ELSE default)
JGet(node, key) == JGetOr(node, key, JNull)

\* node.values()
JValues(node) == Once(node, LAMBDA n : [i \in 1..Len(n.v) |-> n.v[i].val])

\* The truth value of a JSON value (JNum is a number other than 0).
JTruthy(x) ==
    Once(x, LAMBDA v :
        CASE v.k = "null" -> FALSE
          [] v.k = "str" -> v.s # ""
          [] v.k \in {"list", "dict"} -> v.v # <<>>
          [] OTHER -> TRUE)

\* x or y
JOr(x, y) == Once(x, LAMBDA v : IF JTruthy(v) THEN v ELSE y)

\* What a record field holds when it is given the value x of an or-chain that
\* ends in "Untitled" or "": a title or summary (the text of a str; a value
\* that is no str stays that object), a date field.
TextOf(x) ==
    Once(x, LAMBDA v :
        IF v.k = "str" THEN v.s ELSE IF v.k = "date" THEN "<date>" ELSE "<object>")
DateOf(x) ==
    Once(x, LAMBDA v :
        IF ~JTruthy(v) THEN EmptyDate
        ELSE IF v.k = "date" THEN v.d
        ELSE BadDate)

\* urljoin(base_url, x): base_url for an empty x, the joined url for a str
\* (url tokens of the model name the url they join to), TypeError for a
\* truthy value that is no str ("Cannot mix str and non-str arguments").
urljoin(base_url, x) ==
    Once(x, LAMBDA v :
        IF ~JTruthy(v) THEN [exc |-> "none", val |-> base_url]
        ELSE IF v.k = "str" THEN [exc |-> "none", val |-> v.s]
        ELSE [exc |-> "TypeError", val |-> ""])

\* ---- parse_jsonld_posts

\* The dict appended for a payload of an ItemList element.
ItemListItem(payload, base_url) ==
    LET link == urljoin(base_url, JOr(JGet(payload, "url"), JStr(""))) IN
    [exc |-> link.exc,
     val |-> [title |-> TextOf(JOr(JGet(payload, "name"),
                                   JOr(JGet(payload, "headline"), JStr("Untitled")))),
              link |-> link.val,
              datePublished |-> DateOf(JOr(JGet(payload, "datePublished"),
                                           JOr(JGet(payload, "dateCreated"), JStr("")))),
              summary |-> TextOf(JOr(JGet(payload, "description"), JStr("")))]]

\* The dict appended for a BlogPosting, Article or NewsArticle node.
PostingItem(node, base_url) ==
    LET link == urljoin(base_url, JOr(JGet(node, "url"), JStr(""))) IN
    [exc |-> link.exc,
     val |-> [title |-> TextOf(JOr(JGet(node, "headline"),
                                   JOr(JGet(node, "name"), JStr("Untitled")))),
              link |-> link.val,
              datePublished |-> DateOf(JOr(JGet(node, "datePublished"), JStr(""))),
              summary |-> TextOf(JOr(JGet(node, "description"), JStr("")))]]

\* `for el in ...: payload = el.get("item") if isinstance(el, dict) else None`
\* over the elements els: the items appended, or the exception of urljoin.
RECURSIVE ItemListItems(_, _)
ItemListItems(els, base_url) ==
    IF els = <<>> THEN [exc |-> "none", val |-> <<>>]
    ELSE Once(Head(els), LAMBDA el :
            Once(IF el.k = "dict" THEN JGet(el, "item") ELSE JNull, LAMBDA payload :
                Then(IF payload.k = "dict"
                     THEN Once(ItemListItem(payload, base_url), LAMBDA it :
                              [exc |-> it.exc, val |-> <<it.val>>])
                     ELSE [exc |-> "none", val |-> <<>>],
                     ItemListItems(Tail(els), base_url))))

\* What `for el in node.get("itemListElement", [])` iterates over: the
\* elements of a list; a str yields its characters and a dict its keys (strs,
\* never dicts); None and numbers are not iterable.
IterItemList(node) ==
    LET x == JGetOr(node, "itemListElement", JList(<<>>)) IN
    IF x.k = "list" THEN [exc |-> "none", val |-> x.v]
    ELSE IF x.k \in {"str", "date", "dict"} THEN [exc |-> "none", val |-> <<>>]
    ELSE [exc |-> "TypeError", val |-> <<>>]

PostingTypes == {"BlogPosting", "Article", "NewsArticle"}
ListedTypes == {"ItemList", "Blog", "WebSite"} \cup PostingTypes

\* The body of `if isinstance(node, dict):` up to the push of the values: the
\* items this node appends.  An @type that is a list or a dict is in no tuple
\* of strs.
NodeItems(node, base_url) ==
    LET type == JGet(node, "@type")
        is == IF type.k = "str" THEN type.s ELSE "<other>"
        els == IterItemList(node)
        listed == IF is # "ItemList" THEN [exc |-> "none", val |-> <<>>]
                  ELSE IF els.exc # "none" THEN els
                  ELSE ItemListItems(els.val, base_url)
        posting == IF is \in PostingTypes
                   THEN LET it == PostingItem(node, base_url) IN
                        [exc |-> it.exc, val |-> <<it.val>>]
                   ELSE [exc |-> "none", val |-> <<>>]
    IN IF is \notin ListedTypes THEN [exc |-> "none", val |-> <<>>]
       ELSE Then(listed, posting)

\* The dicts and lists among vs.  A popped node that is neither is dropped
\* by the loop (no branch of it applies), so the walk pushes these only.
Nodes(vs) == SelectSeq(vs, LAMBDA v : v.k \in {"dict", "list"})

\* `while stack: node = stack.pop()`: the last pushed is the first visited,
\* so the values of a dict and the elements of a list are visited last first.
RECURSIVE WalkStack(_, _, _)
WalkStack(stack, items, base_url) ==
    IF stack = <<>> THEN [exc |-> "none", val |-> items]
    ELSE LET node == stack[Len(stack)]
             rest == SubSeq(stack, 1, Len(stack) - 1)
         IN IF node.k = "dict"
            THEN Once(NodeItems(node, base_url), LAMBDA got :
                    IF got.exc # "none" THEN got
                    ELSE Once(<<rest \o Nodes(JValues(node)), items \o got.val>>, LAMBDA p :
                            WalkStack(p[1], p[2], base_url)))
            ELSE IF node.k = "list"
            THEN Once(rest \o Nodes(node.v), LAMBDA st : WalkStack(st, items, base_url))
            ELSE Once(rest, LAMBDA st : WalkStack(st, items, base_url))

\* A script block whose text json.loads rejects (`except Exception: continue`).
BadJson == [k |-> "bad", s |-> "", v |-> <<>>, d |-> NoneDate]

\* The loop over the ld+json script tags, in document order.
RECURSIVE JsonldBlocks(_, _, _)
JsonldBlocks(blocks, items, base_url) ==
    IF blocks = <<>> THEN [exc |-> "none", val |-> items]
    ELSE IF Head(blocks).k = "bad" THEN JsonldBlocks(Tail(blocks), items, base_url)
    ELSE Once(WalkStack(<<Head(blocks)>>, items, base_url), LAMBDA w :
            IF w.exc # "none" THEN w
            ELSE JsonldBlocks(Tail(blocks), w.val, base_url))

\* parse_jsonld_posts(soup, base_url): the items of the structured-data
\* blocks made unique by link, or the exception met on the way (nothing in
\* the function catches it).
parse_jsonld_posts(soup, base_url) ==
    Once(JsonldBlocks(soup.jsonld, <<>>, base_url), LAMBDA r :
        IF r.exc # "none" THEN r
        ELSE [exc |-> "none", val |-> UniqByLink(r.val, {})])

\* ---- parse_archive_links

\* The selectors, in the order of the list: "a.post-preview-title",
\* "h2 a[href*='/p/']", "h3 a[href*='/p/']", "article a[href*='/p/']",
\* "a[href*='/p/']".
Selectors == 1..5

\* The item appended for the anchor a, which holds its href ("" when absent;
\* a url token names the url the href joins to), whether that url is on
\* another origin than the page, the selectors it matches, its text, its
\* title attribute and the date of the <time> found in or around it.
AnchorItem(a, base_url) ==
    [title |-> IF a.text # "" THEN a.text
               ELSE IF a.title # "" THEN a.title ELSE "Untitled",
     link |-> IF a.href = "" THEN base_url ELSE a.href,
     datePublished |-> a.time,
     summary |-> ""]

\* `for a in soup.select(sel)`: the anchors that match sel, in document order.
RECURSIVE SelectItems(_, _, _)
SelectItems(anchors, sel, base_url) ==
    IF anchors = <<>> THEN <<>>
    ELSE LET a == Head(anchors)
             more == SelectItems(Tail(anchors), sel, base_url)
         IN IF sel \in a.matches /\ a.href # "" /\ ~a.external
            THEN <<AnchorItem(a, base_url)>> \o more
            ELSE more

\* `for sel in [...]`, from the selector sel on.
RECURSIVE AllSelectors(_, _, _)
AllSelectors(anchors, sel, base_url) ==
    IF sel \notin Selectors THEN <<>>
    ELSE SelectItems(anchors, sel, base_url) \o AllSelectors(anchors, sel + 1, base_url)

parse_archive_links(soup, base_url) ==
    Once(AllSelectors(soup.anchors, 1, base_url), LAMBDA items : UniqSeen(items, {}))

\* ---- parse_substack_html

\* A parse_substack_html that asks the anchors first.
parse_substack_html_anchors_first(content, page_url) ==
    Once(<<parse_archive_links(content.page, page_url),
           parse_jsonld_posts(content.page, page_url)>>, LAMBDA p :
        IF p[2].exc # "none" THEN p[2]
        ELSE IF p[1] # <<>> THEN [exc |-> "none", val |-> p[1]]
        ELSE p[2])
\* parse_substack_html(content, page_url): the items (the site title plays no
\* part in what follows), or the exception of parse_jsonld_posts.  The soup
\* of the document content is content.page.
parse_substack_html(content, page_url) ==
    Once(parse_jsonld_posts(content.page, page_url), LAMBDA items :
        IF items.exc # "none" THEN items
        ELSE IF items.val # <<>> THEN items
        ELSE [exc |-> "none", val |-> parse_archive_links(content.page, page_url)])

\* ---- playwright_collect_archive

\* "/p/" + slug: TypeError for a slug that is no str.
SlugUrl(slug) ==
    IF slug.k = "str" THEN [exc |-> "none", val |-> slug]
    ELSE [exc |-> "TypeError", val |-> JNull]

\* The body of `for p in node["posts"]` for a dict p: the dict appended (none
\* when the link is empty), or the exception of the concatenation or the join.
PostItem(p, base_url) ==
    LET url0 == JOr(JGet(p, "canonical_url"), JGet(p, "url"))
        slug == JGet(p, "slug")
        url == IF ~JTruthy(url0) /\ JTruthy(slug)
               THEN SlugUrl(slug) ELSE [exc |-> "none", val |-> url0]
        link == urljoin(base_url, JOr(url.val, JStr("")))
        it == [title |-> TextOf(JOr(JGet(p, "title"), JOr(JGet(p, "headline"),
                            JOr(JGet(p, "name"), JOr(JGet(p, "subject"), JStr("Untitled")))))),
               link |-> link.val,
               datePublished |-> DateOf(JOr(JGet(p, "date_published"),
                                    JOr(JGet(p, "published_at"), JOr(JGet(p, "datePublished"),
                                    JOr(JGet(p, "post_date"), JStr("")))))),
               summary |-> TextOf(JOr(JGet(p, "description"), JOr(JGet(p, "subtitle"),
                              JOr(JGet(p, "excerpt"), JStr("")))))]
    IN IF url.exc # "none" THEN [exc |-> url.exc, val |-> <<>>]
       ELSE IF link.exc # "none" THEN [exc |-> link.exc, val |-> <<>>]
       ELSE IF link.val = "" THEN [exc |-> "none", val |-> <<>>]
       ELSE [exc |-> "none", val |-> <<it>>]

\* `for p in node["posts"]`
RECURSIVE PostItems(_, _)
PostItems(ps, base_url) ==
    IF ps = <<>> THEN [exc |-> "none", val |-> <<>>]
    ELSE Once(Head(ps), LAMBDA p :
            Then(IF p.k = "dict" THEN PostItem(p, base_url)
                 ELSE [exc |-> "none", val |-> <<>>],
                 PostItems(Tail(ps), base_url)))

\* walk(node), and walk over the nodes vs in order.
RECURSIVE walk(_, _)
RECURSIVE WalkEach(_, _)
walk(node, base_url) ==
    IF node.k = "dict"
    THEN LET posts == JGet(node, "posts")
             own == IF JHas(node, "posts") /\ posts.k = "list"
                    THEN PostItems(posts.v, base_url)
                    ELSE [exc |-> "none", val |-> <<>>]
         IN Then(own, WalkEach(JValues(node), base_url))
    ELSE IF node.k = "list" THEN WalkEach(node.v, base_url)
    ELSE [exc |-> "none", val |-> <<>>]
WalkEach(vs, base_url) ==
    IF vs = <<>> THEN [exc |-> "none", val |-> <<>>]
    ELSE Once(Head(vs), LAMBDA v : Then(walk(v, base_url), WalkEach(Tail(vs), base_url)))

\* normalize_posts(obj, base_url): the posts found in obj made unique by
\* link, or the exception met on the way.
normalize_posts(obj, base_url) ==
    Once(walk(obj, base_url), LAMBDA out :
        IF out.exc # "none" THEN out
        ELSE [exc |-> "none", val |-> UniqByLink(out.val, {})])

\* `try: ... json.loads(text) ... normalize_posts(...) except Exception`: the
\* items of one text, none when the text is no JSON or the walk raises.
PostsOrNone(data, base_url) ==
    IF data.k = "bad" THEN <<>>
    ELSE Once(normalize_posts(data, base_url), LAMBDA r :
            IF r.exc # "none" THEN <<>> ELSE r.val)

\* `for _, text in captured: ... api_items.extend(...)`
RECURSIVE ApiItems(_, _)
ApiItems(captured, base_url) ==
    IF captured = <<>> THEN <<>>
    ELSE PostsOrNone(Head(captured), base_url) \o ApiItems(Tail(captured), base_url)

\* The merge loop at the end of playwright_collect_archive.
MergeCapture(api_items, next_items) ==
    Once(api_items \o next_items, LAMBDA its : UniqByLink(its, {}))

\* playwright_collect_archive(api_base_url, archive_url, ua) on a page whose
\* __NEXT_DATA__ script holds next_data (BadJson: no such script, or text that
\* is no JSON) and whose JSON responses from /api hold captured: the merged
\* items.
playwright_collect_archive(next_data, captured, api_base_url) ==
    MergeCapture(ApiItems(captured, api_base_url), PostsOrNone(next_data, api_base_url))

\* ------------------------------------------------------ classifier, parser

\* bytes.lstrip() strips ASCII whitespace: tab, LF, VT, FF, CR, space.
Whitespace == {9, 10, 11, 12, 13, 32}

\* lower() of one ASCII byte or character, and of a sequence of them.
LowerByte(b) == IF b \in 65..90 THEN b + 32 ELSE b
Lower(s) == [i \in 1..Len(s) |-> LowerByte(s[i])]

\* An lstrip that strips spaces only.
LStripSpacesOnly(s) ==
    LET n == Len(s)
        k == IF \E i \in 1..n : s[i] # 32
             THEN CHOOSE i \in 1..n : s[i] # 32 /\ \A j \in 1..(i - 1) : s[j] = 32
             ELSE n + 1
    IN SubSeq(s, k, n)
\* s.lstrip(): s from its first byte that is not whitespace.
LStrip(s) ==
    LET n == Len(s)
        k == IF \E i \in 1..n : s[i] \notin Whitespace
             THEN CHOOSE i \in 1..n :
                    /\ s[i] \notin Whitespace
                    /\ \A j \in 1..(i - 1) : s[j] \in Whitespace
             ELSE n + 1
    IN SubSeq(s, k, n)

\* s.startswith(p)
StartsWith(s, p) == Len(s) >= Len(p) /\ SubSeq(s, 1, Len(p)) = p

\* p in s
Contains(s, p) ==
    \E i \in 1..(Len(s) - Len(p) + 1) : SubSeq(s, i, i + Len(p) - 1) = p

\* "html", b"<!doctype html", b"<html"
HtmlWord == <<104, 116, 109, 108>>
DoctypeHtml == <<60, 33, 100, 111, 99, 116, 121, 112, 101, 32, 104, 116, 109, 108>>
HtmlTag == <<60, 104, 116, 109, 108>>

\* `content_type and "html" in content_type.lower()`
CtypeHasHtml(content_type) ==
    content_type # <<>> /\ Contains(Lower(content_type), HtmlWord)

\* is_html_payload(content, content_type): the header says html, or the
\* first 200 bytes, left-stripped and lowercased, start with a doctype or an
\* <html tag.
is_html_payload(content, content_type) ==
    IF CtypeHasHtml(content_type) THEN TRUE
    ELSE LET head == Lower(LStrip(SubSeq(content, 1,
                                         IF HeadLen < Len(content) THEN HeadLen ELSE Len(content))))
         IN StartsWith(head, DoctypeHtml) \/ StartsWith(head, HtmlTag)

\* A pattern that takes tab, LF and CR for invalid too.
XML_INVALID_CTRL_ALL == 0..31
\* XML_INVALID_CTRL_RE = rb"[\x00-\x08\x0B\x0C\x0E-\x1F]": the bytes it matches.
XML_INVALID_CTRL_RE == (0..8) \cup {11, 12} \cup (14..31)

\* XML_INVALID_CTRL_RE.sub(b"", content)
StripCtrl(bs) == SelectSeq(bs, LAMBDA b : b \notin XML_INVALID_CTRL_RE)

\* A parser that rejects every document feedparser flags.
parse_feed_bytes_strict(content) ==
    IF content.bozo
    THEN [exc |-> "FeedParseError", entries |-> <<>>]
    ELSE [exc |-> "none", entries |-> content.entries]
\* parse_feed_bytes: raises when feedparser flags the document (bozo) and it
\* has no entries.  content.bozo and content.entries are what feedparser makes
\* of content.bytes.
parse_feed_bytes(content) ==
    IF content.bozo /\ content.entries = <<>>
    THEN [exc |-> "FeedParseError", entries |-> <<>>]
    ELSE [exc |-> "none", entries |-> content.entries]

\* ------------------------------------------------------- the outside world

Entry(l, d) == [title |-> "T", link |-> l, published |-> d, summary |-> "s"]
Undated(l) == [title |-> "T", link |-> l]

\* What an HTML document holds: the JSON of its ld+json script blocks, its
\* anchors, and whether its head declares an alternate feed link
\* (<link rel="alternate" type="application/rss+xml" href=...>).
NoPage == [jsonld |-> <<>>, anchors |-> <<>>, feed_link |-> FALSE]

\* JSON objects of the pages: a post of a schema.org type, an element of an
\* ItemList, a post of the archive API.
Posting(type, l, d) ==
    JDict(<<Pair("@type", JStr(type)), Pair("headline", JStr("T")),
            Pair("url", JStr(l)), Pair("datePublished", JDate(d))>>)
ListItem(l, d) ==
    JDict(<<Pair("@type", JStr("ListItem")),
            Pair("item", JDict(<<Pair("name", JStr("T")), Pair("url", JStr(l)),
                                 Pair("datePublished", JDate(d))>>))>>)
ItemList(els) == JDict(<<Pair("@type", JStr("ItemList")), Pair("itemListElement", els)>>)
Post(l, d) ==
    JDict(<<Pair("title", JStr("T")), Pair("canonical_url", JStr(l)),
            Pair("post_date", JDate(d))>>)
Posts(ps) == JDict(<<Pair("posts", JList(ps))>>)

\* An anchor to the post l that only the last selector matches.
Anchor(l) ==
    [href |-> l, external |-> FALSE, matches |-> {5}, text |-> "T", title |-> "",
     time |-> EmptyDate]

Doc(bs, b, es, pg) == [bytes |-> bs, bozo |-> b, entries |-> es, page |-> pg]

\* Leading bytes of the payloads: b"<?xml", the same with stray control bytes
\* (NUL, BS, VT, FF, SO, US) and with tab, LF, CR and space among them, b"{",
\* b"\n<!DOCTYPE html>", b"<html>", b"<HTML".
XmlDecl == <<60, 63, 120, 109, 108>>
XmlDeclDirty == <<0, 60, 63, 120, 109, 108, 8, 9, 10, 11, 12, 13, 14, 31, 32>>
XmlDeclBell == <<60, 63, 120, 7, 109, 108>>
Brace == <<123>>
DoctypeUpper == <<10, 60, 33, 68, 79, 67, 84, 89, 80, 69, 32, 104, 116, 109, 108, 62>>
HtmlOpen == <<60, 104, 116, 109, 108, 62>>
HtmlUpper == <<60, 72, 84, 77, 76>>

\* Content-type header values: "application/rss+xml", "text/html",
\* "Text/HTML; charset=utf-8", and "" for a response without the header.
CtRss == <<97, 112, 112, 108, 105, 99, 97, 116, 105, 111, 110, 47, 114, 115, 115, 43, 120, 109, 108>>
CtHtml == <<116, 101, 120, 116, 47, 104, 116, 109, 108>>
CtHtmlMixed == <<84, 101, 120, 116, 47, 72, 84, 77, 76, 59, 32, 99, 104, 97, 114, 115, 101, 116, 61, 117, 116, 102, 45, 56>>
CtNone == <<>>

\* Feed documents.
Feed3 == Doc(XmlDeclDirty, FALSE,
             <<Entry("a", Naive(1)), Entry("b", Naive(3)), Entry("c", Naive(2))>>, NoPage)
FeedDup == Doc(XmlDecl, FALSE, <<Entry("a", Aware(2)), Entry("a", Aware(1))>>, NoPage)
FeedMixed == Doc(XmlDecl, FALSE, <<Entry("a", Naive(1)), Undated("b")>>, NoPage)
FeedEmpty == Doc(XmlDecl, FALSE, <<>>, NoPage)
FeedBozo == Doc(XmlDeclBell, TRUE, <<Entry("a", Aware(1))>>, NoPage)
Garbage == Doc(Brace, TRUE, <<>>, NoPage)

\* HTML documents: what the extractors find in them.
HtmlBlock == Doc(DoctypeUpper, TRUE, <<>>, NoPage)
\* HtmlPosts: an ItemList of the posts a, a, b and an anchor to c.
\* HtmlAnchors: no structured data, two anchors to c.
\* HtmlOddJson: an ItemList whose itemListElement is null.
HtmlPosts == Doc(HtmlOpen, TRUE, <<>>,
                 [jsonld |-> <<ItemList(JList(<<ListItem("a", Aware(1)), ListItem("a", Aware(1)),
                                                ListItem("b", Aware(2))>>))>>,
                  anchors |-> <<Anchor("c")>>, feed_link |-> FALSE])
HtmlAnchors == Doc(HtmlUpper, TRUE, <<>>,
                   [jsonld |-> <<>>, anchors |-> <<Anchor("c"), Anchor("c")>>,
                    feed_link |-> FALSE])
HtmlOddJson == Doc(HtmlOpen, TRUE, <<>>,
                   [jsonld |-> <<ItemList(JNull)>>, anchors |-> <<>>, feed_link |-> FALSE])
\* A block page without posts whose head declares an alternate feed link.
HtmlFeedLink == Doc(DoctypeUpper, TRUE, <<>>,
                    [jsonld |-> <<>>, anchors |-> <<>>, feed_link |-> TRUE])

\* The bodies a 200 response can carry, with their content-type header.
\* url is r.url: the requested url, or another one after redirects.
OkBodies ==
    {[content |-> d, ctype |-> CtRss, url |-> "requested"] :
        d \in {FeedDup, FeedMixed, FeedEmpty, FeedBozo, Garbage}}
    \cup {[content |-> Feed3, ctype |-> CtRss, url |-> "redirected"]}
    \cup {[content |-> HtmlBlock, ctype |-> CtHtml, url |-> "requested"],
          [content |-> HtmlFeedLink, ctype |-> CtHtml, url |-> "requested"],
          [content |-> HtmlPosts, ctype |-> CtHtmlMixed, url |-> "requested"]}
    \cup {[content |-> HtmlAnchors, ctype |-> CtNone, url |-> "redirected"]}

\* The body of a response that is not a 200.
ErrBody == [content |-> HtmlBlock, ctype |-> CtHtml, url |-> "requested"]

\* The statuses a request can be answered with.
Statuses == {200, 403, 429, 404, 500}

\* What playwright_dom can return (it can also raise).
RenderedDocs == {HtmlBlock, HtmlPosts, HtmlAnchors, HtmlOddJson}

\* What the two sources of playwright_collect_archive can hold: the texts of
\* the captured API responses (none; one with the posts a and b; one whose
\* post has a number for url) and the page-state blob (none; the post b; the
\* posts a, without a zone, and c, without a date).
ApiCaptures ==
    {<<>>,
     <<Posts(<<Post("a", Aware(1)), Post("b", Aware(2))>>)>>,
     <<Posts(<<JDict(<<Pair("title", JStr("T")), Pair("url", JNum)>>)>>)>>}
NextCaptures ==
    {BadJson,
     JDict(<<Pair("props", Posts(<<Post("b", Aware(2))>>))>>),
     Posts(<<Post("a", Naive(1)), JDict(<<Pair("title", JStr("T")), Pair("slug", JStr("c"))>>)>>)}

\* ------------------------------------------------------------------ state

VARIABLES
    USE_PLAYWRIGHT,   \* os.getenv("USE_PLAYWRIGHT") == "1"
    SOFT_FAIL,        \* os.getenv("SOFT_FAIL") == "1"
    feed_is_handle,   \* "substack.com/@" in feed_url.lower()
    item_limit,       \* int(os.getenv("ITEM_LIMIT"))
    pc,               \* the position in main() and in the __main__ guard
    pub_base,         \* "none" (None) or "pub"
    http_state,       \* http_get: "idle", "running", "returned", "raised"
    http_url,         \* http_get: the url argument
    responses,        \* http_get: the responses received in this call, in order
    sleeps,           \* http_get: the delays waited in this call, in order
    last_status,      \* http_get: last_status (0 is None)
    http_ret,         \* http_get: the tuple returned
    http_exc,         \* http_get: the error raised
    content,          \* main: content
    ctype,            \* main: ctype
    final_url,        \* main: final_url
    origin,           \* main: origin ("none" before it is set)
    items,            \* main: items
    api_items,        \* main: api_items, what the archive capture returned
    exc,              \* the exception that left main(): [kind, status, url]
    page,             \* dist/index.html: [kind, items]
    exit_code,        \* the process's exit status (-1 while it runs)
    calls,            \* the calls made so far to the browser, the feed parser
                      \* and the HTML extractors, in order
    feed_parses,      \* the calls of parse_feed_bytes so far: the content
                      \* fetched, the bytes handed over, and the outcome
    fn_pc,            \* a function applied on its own: which one, and how far
    fn_args,          \* its arguments
    fn_ret,           \* what it returned
    fn_ret2           \* what it returned when applied to its own output

vars == <<USE_PLAYWRIGHT, SOFT_FAIL, feed_is_handle, item_limit, pc, pub_base,
          http_state, http_url, responses, sleeps, last_status, http_ret,
          http_exc, content, ctype, final_url, origin, items, api_items, exc, page,
          exit_code, calls,
          feed_parses, fn_pc, fn_args, fn_ret, fn_ret2>>

config == <<USE_PLAYWRIGHT, SOFT_FAIL, feed_is_handle, item_limit>>
http == <<http_state, http_url, responses, sleeps, last_status, http_ret, http_exc>>
locals == <<content, ctype, final_url, origin, items, api_items>>
fn == <<fn_pc, fn_args, fn_ret, fn_ret2>>

NoExc == [kind |-> "none", status |-> 0, url |-> "none"]
Exc(k) == [kind |-> k, status |-> 0, url |-> "none"]
NoDoc == Doc(<<>>, FALSE, <<>>, NoPage)
\* No function is applied on its own during a run of main().
FnOff ==
    /\ fn_pc = "off"
    /\ fn_args = <<>>
    /\ fn_ret = <<>>
    /\ fn_ret2 = <<>>

NoRet == [content |-> NoDoc, ctype |-> CtNone, url |-> "none"]

Init ==
    /\ USE_PLAYWRIGHT \in BOOLEAN
    /\ SOFT_FAIL \in BOOLEAN
    /\ feed_is_handle \in BOOLEAN
    /\ item_limit \in 1..MaxLimit
    /\ pc = "start"
    /\ pub_base = "none"
    /\ http_state = "idle"
    /\ http_url = "none"
    /\ responses = <<>>
    /\ sleeps = <<>>
    /\ last_status = 0
    /\ http_ret = NoRet
    /\ http_exc = NoExc
    /\ content = NoDoc
    /\ ctype = CtNone
    /\ final_url = "none"
    /\ origin = "none"
    /\ items = <<>>
    /\ api_items = <<>>
    /\ exc = NoExc
    /\ page = [kind |-> "none", items |-> <<>>]
    /\ exit_code = -1
    /\ calls = <<>>
    /\ feed_parses = <<>>
    /\ FnOff

\* ---------------------------------------------------------------- http_get

\* Entering http_get(url, ...): a fresh session, last_status = None.
CallHttpGet(url) ==
    /\ http_state' = "running"
    /\ http_url' = url
    /\ responses' = <<>>
    /\ sleeps' = <<>>
    /\ last_status' = 0
    /\ http_ret' = NoRet
    /\ http_exc' = NoExc

\* Leaving the frame of http_get: its locals are gone.
LeaveHttpGet ==
    /\ http_state' = "idle"
    /\ http_url' = "none"
    /\ responses' = <<>>
    /\ sleeps' = <<>>
    /\ last_status' = 0
    /\ http_ret' = NoRet
    /\ http_exc' = NoExc

\* A retry test that also retries on a server error.
RetryableAlso500(status) == status \in {403, 429, 500}
\* r.status_code in (403, 429)
Retryable(status) == status \in {403, 429}

\* A last_status that is set by the first response only.
RecordStatusFirstOnly(prev, status) == IF prev = 0 THEN status ELSE prev
\* last_status = r.status_code
RecordStatus(prev, status) == status

\* The base of the delay slept after the n-th response of the call.
SleepBase(n) == BaseDelay

\* return r.content, r.headers.get("content-type", ""), r.url
ReturnOf(r) == [content |-> r.content, ctype |-> r.ctype, url |-> r.url]

\* RuntimeError(f"Failed to fetch URL (last status {last_status}): {url}")
FetchError(status, url) == [kind |-> "FetchError", status |-> status, url |-> url]

\* What the loop does after a response: return, sleep and go on, or break.
AfterResponse(status) ==
    IF status = 200 THEN "return"
    ELSE IF Retryable(status) THEN "sleep"
    ELSE "break"

\* One iteration of `for _ in range(3)`: a request, its response, and the
\* return, the sleep, or the break that follows; the raise after the loop is
\* part of the iteration that ends it.
http_get_attempt ==
    /\ http_state = "running"
    /\ Len(responses) < AttemptBudget
    /\ \E status \in Statuses :
       \E body \in (IF status = 200 THEN OkBodies ELSE {ErrBody}) :
       \E jitter \in 0..(IF Retryable(status) THEN MaxJitter ELSE 0) :
         LET r == [status |-> status, content |-> body.content,
                   ctype |-> body.ctype,
                   url |-> IF body.url = "requested" THEN http_url ELSE "redirected"]
             n == Len(responses) + 1
             what == AfterResponse(status)
             done == IF what = "return" THEN "returned"
                     ELSE IF what = "sleep" /\ n < AttemptBudget THEN "running"
                     ELSE "raised"
         IN /\ responses' = Append(responses, r)
            /\ last_status' = RecordStatus(last_status, status)
            /\ sleeps' = IF what = "sleep"
                         THEN Append(sleeps, [base |-> SleepBase(n), jitter |-> jitter])
                         ELSE sleeps
            /\ http_state' = done
            /\ http_ret' = IF done = "returned" THEN ReturnOf(r) ELSE http_ret
            /\ http_exc' = IF done = "raised"
                           THEN FetchError(RecordStatus(last_status, status), http_url)
                           ELSE http_exc
    /\ UNCHANGED <<config, pc, pub_base, http_url, locals, exc, page, exit_code,
                   calls, feed_parses, fn>>

HttpDone == http_state \in {"returned", "raised"}

\* -------------------------------------------------------------------- main

\* print(f"Fetching feed: {feed_url}"), then http_get(feed_url, ua, public_url)
GoDirect ==
    /\ pc' = "direct_fetch"
    /\ CallHttpGet("feed_url")

\* main() up to the handle test: ensure_dist, the environment, and the choice
\* between resolving the handle and the standard path.
Main_Start ==
    /\ pc = "start"
    /\ IF feed_is_handle /\ USE_PLAYWRIGHT
       THEN /\ pc' = "resolve"
            /\ UNCHANGED http
       ELSE GoDirect
    /\ UNCHANGED <<config, pub_base, locals, exc, page, exit_code, calls, feed_parses, fn>>

\* resolve_publication_base(feed_url, ua): the profile page is rendered; the
\* base is found in it, or is not, or the rendering raises (caught: None).
resolve_publication_base ==
    /\ pc = "resolve"
    /\ calls' = Append(calls, "playwright_dom(handle)")
    /\ \E outcome \in {"found", "not found", "raised"} :
         IF outcome = "found"
         THEN /\ pub_base' = "pub"
              /\ pc' = "pub_fetch"
              /\ CallHttpGet("pub/feed")
         ELSE /\ pub_base' = "none"
              /\ GoDirect
    /\ UNCHANGED <<config, locals, exc, page, exit_code, feed_parses, fn>>

\* render_index(...): dist/index.html holds the rendered items.
Rendered(its) == [kind |-> "rendered", items |-> its]

\* cleaned = XML_INVALID_CTRL_RE.sub(b"", content): the payload whose bytes
\* are the stripped ones.
Cleaned(doc) == [doc EXCEPT !.bytes = StripCtrl(doc.bytes)]

\* The record of one parse_feed_bytes(cleaned) call: the bytes fetched, the
\* bytes handed to the parser, what feedparser made of them (bozo, entries),
\* and what parse_feed_bytes did (exc) and returned.
FeedParse(doc, cleaned, parsed) ==
    [fetched |-> doc.bytes, given |-> cleaned.bytes,
     bozo |-> cleaned.bozo, entries |-> cleaned.entries,
     exc |-> parsed.exc, returned |-> parsed.entries]

\* A try block on the publication's feed without the except: what goes wrong
\* in it ends main().
Main_PubRssFatal ==
    /\ pc = "pub_fetch"
    /\ HttpDone
    /\ LET r == http_ret
           html == is_html_payload(r.content.bytes, r.ctype)
           cleaned == Cleaned(r.content)
           parsed == parse_feed_bytes(cleaned)
           norm == normalize_entries(parsed.entries, item_limit)
       IN /\ calls' = IF http_state = "returned" /\ ~html
                      THEN Append(calls, "parse_feed_bytes(pub)")
                      ELSE calls
          /\ feed_parses' = IF http_state = "returned" /\ ~html
                            THEN Append(feed_parses, FeedParse(r.content, cleaned, parsed))
                            ELSE feed_parses
          /\ IF http_state = "raised"
             THEN /\ exc' = http_exc
                  /\ pc' = "raised"
                  /\ LeaveHttpGet
                  /\ UNCHANGED <<items, page>>
             ELSE IF html
             THEN /\ GoDirect
                  /\ UNCHANGED <<items, page, exc>>
             ELSE IF parsed.exc # "none" \/ norm.exc # "none"
             THEN /\ exc' = Exc(IF parsed.exc # "none" THEN parsed.exc ELSE norm.exc)
                  /\ pc' = "raised"
                  /\ LeaveHttpGet
                  /\ UNCHANGED <<items, page>>
             ELSE /\ items' = norm.val
                  /\ page' = Rendered(norm.val)
                  /\ pc' = "returned"
                  /\ LeaveHttpGet
                  /\ UNCHANGED exc
    /\ UNCHANGED <<config, pub_base, content, ctype, final_url, origin, api_items,
                   exit_code, fn>>

\* The try block on the publication's feed: on a feed that parses and
\* normalizes, render and return; on an HTML payload or any exception, go on
\* to the standard path.
Main_PubRss ==
    /\ pc = "pub_fetch"
    /\ HttpDone
    /\ LET r == http_ret
           html == is_html_payload(r.content.bytes, r.ctype)
           cleaned == Cleaned(r.content)
           parsed == parse_feed_bytes(cleaned)
           norm == normalize_entries(parsed.entries, item_limit)
           ok == /\ http_state = "returned"
                 /\ ~html
                 /\ parsed.exc = "none"
                 /\ norm.exc = "none"
       IN /\ calls' = IF http_state = "returned" /\ ~html
                      THEN Append(calls, "parse_feed_bytes(pub)")
                      ELSE calls
          /\ feed_parses' = IF http_state = "returned" /\ ~html
                            THEN Append(feed_parses, FeedParse(r.content, cleaned, parsed))
                            ELSE feed_parses
          /\ IF ok
             THEN /\ items' = norm.val
                  /\ page' = Rendered(norm.val)
                  /\ pc' = "returned"
                  /\ LeaveHttpGet
             ELSE /\ GoDirect
                  /\ UNCHANGED <<items, page>>
    /\ UNCHANGED <<config, pub_base, content, ctype, final_url, origin, api_items, exc,
                   exit_code, fn>>

\* The standard path's http_get has returned or raised: keep its result, or
\* fall back to the rendered DOM when rendering is enabled, or re-raise.
Main_DirectFetched ==
    /\ pc = "direct_fetch"
    /\ HttpDone
    /\ IF http_state = "returned"
       THEN /\ content' = http_ret.content
            /\ ctype' = http_ret.ctype
            /\ final_url' = http_ret.url
            /\ pc' = "archive"
            /\ UNCHANGED exc
       ELSE IF USE_PLAYWRIGHT
       THEN /\ pc' = "fallback_dom"
            /\ UNCHANGED <<content, ctype, final_url, exc>>
       ELSE /\ exc' = http_exc
            /\ pc' = "raised"
            /\ UNCHANGED <<content, ctype, final_url>>
    /\ LeaveHttpGet
    /\ UNCHANGED <<config, pub_base, origin, items, api_items, page, exit_code, calls,
                   feed_parses, fn>>

\* html, final_url = playwright_dom(feed_url, ua) in the except branch: it
\* returns a page, or raises (nothing catches it).
Main_FallbackDom ==
    /\ pc = "fallback_dom"
    /\ calls' = Append(calls, "playwright_dom(feed_url)")
    /\ \/ /\ exc' = Exc("RenderError")
          /\ pc' = "raised"
          /\ UNCHANGED <<content, ctype, final_url>>
       \/ \E d \in RenderedDocs :
          /\ content' = d
          /\ ctype' = CtHtml
          /\ final_url' = "rendered"
          /\ pc' = "archive"
          /\ UNCHANGED exc
    /\ UNCHANGED <<config, pub_base, http, origin, items, api_items, page, exit_code,
                   feed_parses, fn>>

\* origin, then the archive capture when rendering is enabled: the capture
\* raises (caught), or returns the merged items; a non-empty capture is
\* normalized into items (an exception of normalize_entries is caught too).
Main_ArchiveCapture ==
    /\ pc = "archive"
    /\ origin' = IF is_html_payload(content.bytes, ctype) /\ pub_base # "none"
                 THEN pub_base ELSE final_url
    /\ IF USE_PLAYWRIGHT
       THEN /\ calls' = Append(calls, "playwright_collect_archive")
            /\ \/ UNCHANGED <<items, api_items>>
               \/ \E a \in ApiCaptures, n \in NextCaptures :
                    LET merged == playwright_collect_archive(n, a, origin')
                        norm == normalize_entries(merged, item_limit)
                    IN /\ api_items' = merged
                       /\ items' = IF merged # <<>> /\ norm.exc = "none"
                                   THEN norm.val ELSE items
       ELSE UNCHANGED <<items, api_items, calls>>
    /\ pc' = "fill"
    /\ UNCHANGED <<config, pub_base, http, content, ctype, final_url, exc, page,
                   exit_code, feed_parses, fn>>

\* `if not items:` with an HTML payload: the archive page is rendered and
\* scraped; on any exception in that, the page already held is scraped.
ScrapeHtml ==
    /\ is_html_payload(content.bytes, ctype)
    /\ UNCHANGED feed_parses
    /\ \/ \* playwright_dom(arch, ua) raises
          LET own == parse_substack_html(content, final_url)
              norm == normalize_entries(own.val, item_limit)
          IN /\ calls' = calls \o <<"playwright_dom(archive)", "parse_substack_html(content)">>
             /\ IF own.exc # "none" \/ norm.exc # "none"
                THEN /\ exc' = Exc("TypeError")
                     /\ pc' = "raised"
                     /\ UNCHANGED items
                ELSE /\ items' = norm.val
                     /\ pc' = "check"
                     /\ UNCHANGED exc
       \/ \* playwright_dom(arch, ua) returns a page
          \E d \in RenderedDocs :
            LET got == parse_substack_html(d, "archive")
                norm == normalize_entries(got.val, item_limit)
                own == parse_substack_html(content, final_url)
                norm2 == normalize_entries(own.val, item_limit)
            IN IF got.exc = "none" /\ norm.exc = "none"
               THEN /\ calls' = calls \o <<"playwright_dom(archive)", "parse_substack_html(archive)">>
                    /\ items' = norm.val
                    /\ pc' = "check"
                    /\ UNCHANGED exc
               ELSE /\ calls' = calls \o <<"playwright_dom(archive)", "parse_substack_html(archive)",
                                           "parse_substack_html(content)">>
                    /\ IF own.exc # "none" \/ norm2.exc # "none"
                       THEN /\ exc' = Exc("TypeError")
                            /\ pc' = "raised"
                            /\ UNCHANGED items
                       ELSE /\ items' = norm2.val
                            /\ pc' = "check"
                            /\ UNCHANGED exc

\* `if not items:` with a payload that is not HTML: the feed is parsed and
\* normalized; nothing catches what these raise.
ParseFeed ==
    /\ ~is_html_payload(content.bytes, ctype)
    /\ calls' = Append(calls, "parse_feed_bytes(content)")
    /\ LET cleaned == Cleaned(content)
           parsed == parse_feed_bytes(cleaned)
           norm == normalize_entries(parsed.entries, item_limit)
       IN /\ feed_parses' = Append(feed_parses, FeedParse(content, cleaned, parsed))
          /\ IF parsed.exc # "none"
             THEN /\ exc' = Exc(parsed.exc)
                  /\ pc' = "raised"
                  /\ UNCHANGED items
             ELSE IF norm.exc # "none"
             THEN /\ exc' = Exc(norm.exc)
                  /\ pc' = "raised"
                  /\ UNCHANGED items
             ELSE /\ items' = norm.val
                  /\ pc' = "check"
                  /\ UNCHANGED exc

\* "If still empty, parse rendered/current HTML"
Main_Fill ==
    /\ pc = "fill"
    /\ IF items # <<>>
       THEN /\ pc' = "check"
            /\ UNCHANGED <<items, exc, calls, feed_parses>>
       ELSE ScrapeHtml \/ ParseFeed
    /\ UNCHANGED <<config, pub_base, http, content, ctype, final_url, origin, api_items,
                   page, exit_code, fn>>

\* A no-items check that does not look at SOFT_FAIL.
NoItemsRaisedAlways(its, soft) == its = <<>>
\* `if not items and not SOFT_FAIL: raise`
NoItemsRaised(its, soft) == its = <<>> /\ ~soft

\* An end of main() that waits for items instead of raising.
Main_FinishWaiting ==
    /\ pc = "check"
    /\ ~NoItemsRaised(items, SOFT_FAIL)
    /\ page' = Rendered(items)
    /\ pc' = "returned"
    /\ UNCHANGED <<config, pub_base, http, locals, exc, exit_code, calls, feed_parses, fn>>
\* The end of main(): the no-items check, then render_index.
Main_Finish ==
    /\ pc = "check"
    /\ IF NoItemsRaised(items, SOFT_FAIL)
       THEN /\ exc' = Exc("NoItems")
            /\ pc' = "raised"
            /\ UNCHANGED page
       ELSE /\ page' = Rendered(items)
            /\ pc' = "returned"
            /\ UNCHANGED exc
    /\ UNCHANGED <<config, pub_base, http, locals, exit_code, calls, feed_parses, fn>>

\* The __main__ guard on an exception: with SOFT_FAIL the placeholder page is
\* written and the process ends normally, otherwise sys.exit(1).
GuardExit(raised, soft) == IF raised /\ ~soft THEN 1 ELSE 0
GuardPage(raised, soft, old) ==
    IF raised /\ soft THEN [kind |-> "placeholder", items |-> <<>>] ELSE old

Guard ==
    /\ pc \in {"returned", "raised"}
    /\ exit_code' = GuardExit(pc = "raised", SOFT_FAIL)
    /\ page' = GuardPage(pc = "raised", SOFT_FAIL, page)
    /\ pc' = "exited"
    /\ UNCHANGED <<config, pub_base, http, locals, exc, calls, feed_parses, fn>>

Next ==
    \/ Main_Start
    \/ resolve_publication_base
    \/ http_get_attempt
    \/ Main_PubRss
    \/ Main_DirectFetched
    \/ Main_FallbackDom
    \/ Main_ArchiveCapture
    \/ Main_Fill
    \/ Main_Finish
    \/ Guard

Spec == Init /\ [][Next]_vars

\* The process keeps running: a statement that can be executed is executed.
\* Every call the run makes (a request with its timeout, a page load with its
\* timeout, a sleep) returns or raises.
SpecFair == Spec /\ WF_vars(Next)

\* ------------------------------------------- functions applied on their own

\* main() is not running: its state stays as it is before a run.
MainOff ==
    /\ USE_PLAYWRIGHT = FALSE
    /\ SOFT_FAIL = FALSE
    /\ feed_is_handle = FALSE
    /\ item_limit = 1
    /\ pc = "off"
    /\ pub_base = "none"
    /\ http_state = "idle"
    /\ http_url = "none"
    /\ responses = <<>>
    /\ sleeps = <<>>
    /\ last_status = 0
    /\ http_ret = NoRet
    /\ http_exc = NoExc
    /\ content = NoDoc
    /\ ctype = CtNone
    /\ final_url = "none"
    /\ origin = "none"
    /\ items = <<>>
    /\ api_items = <<>>
    /\ exc = NoExc
    /\ page = [kind |-> "none", items |-> <<>>]
    /\ exit_code = -1
    /\ calls = <<>>
    /\ feed_parses = <<>>

main_vars == <<config, pc, pub_base, http, locals, exc, page, exit_code, calls, feed_parses>>

\* The sequences over S of length up to n.
SeqsUpTo(S, n) == UNION {[1..k -> S] : k \in 0..n}

\* Raw records as feedparser and the extractors hand them to
\* normalize_entries: dated (two of them at the same instant), undated, with
\* a naive date, with a first date field that does not parse, without title
\* and summary, and with an empty title.
RawRecords ==
    {Entry("a", Aware(1)), Entry("b", Aware(2)), Entry("c", Aware(2)), Undated("d"),
     Entry("e", Naive(3)),
     [title |-> "T", link |-> "f", published |-> BadDate, updated |-> Aware(3),
      summary |-> "s"],
     [link |-> "g", created |-> EmptyDate, datePublished |-> Aware(1),
      content |-> <<"body">>],
     [title |-> "", link |-> "h", published |-> Aware(1), summary |-> "s"]}

\* normalize_entries(entries, limit) on any sequence of raw records of length
\* up to MaxLen and any limit 0..MaxLimit.
NormalizeInit ==
    /\ MainOff
    /\ fn_pc = "normalize_entries"
    /\ fn_args \in {[entries |-> es, limit |-> l] :
                        es \in SeqsUpTo(RawRecords, MaxLen), l \in 0..MaxLimit}
    /\ fn_ret = <<>>
    /\ fn_ret2 = <<>>

\* The call returns or raises.
normalize_entries_call ==
    /\ fn_pc = "normalize_entries"
    /\ fn_ret' = normalize_entries(fn_args.entries, fn_args.limit)
    /\ fn_pc' = "normalize_entries:1"
    /\ UNCHANGED <<main_vars, fn_args, fn_ret2>>

\* normalize_entries applied, with the same limit, to the list it returned.
normalize_entries_again ==
    /\ fn_pc = "normalize_entries:1"
    /\ fn_ret.exc = "none"
    /\ fn_ret2' = normalize_entries(fn_ret.val, fn_args.limit)
    /\ fn_pc' = "normalize_entries:2"
    /\ UNCHANGED <<main_vars, fn_args, fn_ret>>

NormalizeNext == normalize_entries_call \/ normalize_entries_again

SpecNormalize == NormalizeInit /\ [][NormalizeNext]_vars

\* k whitespace bytes: space, tab, LF, CR, VT, FF in turn.
Pad(k) == [i \in 1..k |-> <<9, 10, 13, 11, 12, 32>>[(i % 6) + 1]]

\* What comes before the marker: nothing, whitespace (up to where the marker
\* just fits, or just does not fit, into the first HeadLen bytes, and past
\* it), or a byte that is not whitespace (NUL, the separator 0x1C, "x").
Prefixes ==
    {Pad(k) : k \in {0, 1, 6, HeadLen - Len(DoctypeHtml), HeadLen - Len(DoctypeHtml) + 1,
                     HeadLen - Len(HtmlTag), HeadLen - Len(HtmlTag) + 1, HeadLen}}
    \cup {<<0>>, <<28>>, <<120>>}

\* b"<!doctype html", b"<!DOCTYPE html>", b"<!DocType HTML>", b"<html",
\* b"<HTML>", b"<Html lang", b"<htm", b"<!doctype htm", b"<?xml", b"html", b"".
Markers ==
    {DoctypeHtml, <<60, 33, 68, 79, 67, 84, 89, 80, 69, 32, 104, 116, 109, 108, 62>>,
     <<60, 33, 68, 111, 99, 84, 121, 112, 101, 32, 72, 84, 77, 76, 62>>, HtmlTag,
     <<60, 72, 84, 77, 76, 62>>, <<60, 72, 116, 109, 108, 32, 108, 97, 110, 103>>,
     <<60, 104, 116, 109>>, <<60, 33, 100, 111, 99, 116, 121, 112, 101, 32, 104, 116, 109>>,
     XmlDecl, HtmlWord, <<>>}

\* Header values: none, "application/rss+xml", "text/html",
\* "Text/HTML; charset=utf-8", "application/xhtml+xml", "application/xml",
\* "text/htm", "TEXT/HTML".
Ctypes ==
    {CtNone, CtRss, CtHtml, CtHtmlMixed,
     <<97, 112, 112, 108, 105, 99, 97, 116, 105, 111, 110, 47, 120, 104, 116, 109, 108, 43, 120, 109, 108>>,
     <<97, 112, 112, 108, 105, 99, 97, 116, 105, 111, 110, 47, 120, 109, 108>>,
     <<116, 101, 120, 116, 47, 104, 116, 109>>, <<84, 69, 88, 84, 47, 72, 84, 77, 76>>}

\* is_html_payload(content, content_type) on any of these contents and
\* header values.
ClassifyInit ==
    /\ MainOff
    /\ fn_pc = "is_html_payload"
    /\ fn_args \in {[content |-> pre \o m, content_type |-> ct] :
                        pre \in Prefixes, m \in Markers, ct \in Ctypes}
    /\ fn_ret = <<>>
    /\ fn_ret2 = <<>>

is_html_payload_call ==
    /\ fn_pc = "is_html_payload"
    /\ fn_ret' = is_html_payload(fn_args.content, fn_args.content_type)
    /\ fn_pc' = "is_html_payload:1"
    /\ UNCHANGED <<main_vars, fn_args, fn_ret2>>

ClassifyNext == is_html_payload_call

SpecClassify == ClassifyInit /\ [][ClassifyNext]_vars

\* parse_feed_bytes(xml_bytes) on any document: feedparser flags it or not,
\* and finds any sequence of up to MaxLen entries in it.
ParseInit ==
    /\ MainOff
    /\ fn_pc = "parse_feed_bytes"
    /\ fn_args \in {[xml_bytes |-> Doc(bs, b, es, NoPage)] :
                        bs \in {XmlDecl, Brace}, b \in BOOLEAN,
                        es \in SeqsUpTo(RawRecords, MaxLen)}
    /\ fn_ret = <<>>
    /\ fn_ret2 = <<>>

parse_feed_bytes_call ==
    /\ fn_pc = "parse_feed_bytes"
    /\ fn_ret' = parse_feed_bytes(fn_args.xml_bytes)
    /\ fn_pc' = "parse_feed_bytes:1"
    /\ UNCHANGED <<main_vars, fn_args, fn_ret2>>

ParseNext == parse_feed_bytes_call

SpecParse == ParseInit /\ [][ParseNext]_vars

\* JSON of ld+json blocks: a BlogPosting; a list of two postings with the
\* url a and one with b; an ItemList of posts a, a, b, c, d; ItemLists whose
\* itemListElement is null, a number, a str; postings whose @type is a list
\* or a dict; a posting whose url is a number; a posting and a list element
\* without url; text that is no JSON.
Titled(type, t, l) ==
    JDict(<<Pair("@type", type), Pair("headline", JStr(t)), Pair("url", l)>>)
JsonBlocks ==
    {Posting("BlogPosting", "a", Aware(1)),
     JList(<<Titled(JStr("Article"), "First", JStr("a")),
             Titled(JStr("Article"), "Second", JStr("a")),
             Titled(JStr("NewsArticle"), "Third", JStr("b"))>>),
     ItemList(JList(<<ListItem("a", Aware(1)), ListItem("a", Aware(1)), ListItem("b", Aware(2)),
                      ListItem("c", Aware(3)), ListItem("d", Aware(4))>>)),
     ItemList(JNull), ItemList(JNum), ItemList(JStr("abc")),
     Titled(JList(<<JStr("BlogPosting")>>), "T", JStr("a")),
     Titled(JDict(<<Pair("name", JStr("BlogPosting"))>>), "T", JStr("a")),
     Titled(JStr("BlogPosting"), "T", JNum),
     JDict(<<Pair("@type", JStr("BlogPosting")), Pair("headline", JStr("T"))>>),
     ItemList(JList(<<JDict(<<Pair("item", JDict(<<Pair("name", JStr("T"))>>))>>)>>)),
     BadJson}

\* The blocks of the pages handed to parse_substack_html.
PageBlocks ==
    {JList(<<Titled(JStr("Article"), "First", JStr("a")),
             Titled(JStr("Article"), "Second", JStr("a")),
             Titled(JStr("NewsArticle"), "Third", JStr("b"))>>),
     ItemList(JList(<<ListItem("a", Aware(1)), ListItem("a", Aware(1)), ListItem("b", Aware(2)),
                      ListItem("c", Aware(3)), ListItem("d", Aware(4))>>)),
     ItemList(JNull),
     Titled(JList(<<JStr("BlogPosting")>>), "T", JStr("a")),
     BadJson}

\* Anchors: to a, matched by the last selector only; to a, with the class
\* post-preview-title; without href; to another site; to b, in an <h2>, with
\* a title attribute and no text; to c, with neither and a <time>.
Anchors ==
    {[href |-> "a", external |-> FALSE, matches |-> {5}, text |-> "Plain", title |-> "",
      time |-> EmptyDate],
     [href |-> "a", external |-> FALSE, matches |-> {1, 5}, text |-> "Preview", title |-> "",
      time |-> EmptyDate],
     [href |-> "", external |-> FALSE, matches |-> {1}, text |-> "T", title |-> "",
      time |-> EmptyDate],
     [href |-> "x", external |-> TRUE, matches |-> {5}, text |-> "T", title |-> "",
      time |-> EmptyDate],
     [href |-> "b", external |-> FALSE, matches |-> {2, 5}, text |-> "", title |-> "Attr",
      time |-> EmptyDate],
     [href |-> "c", external |-> FALSE, matches |-> {4, 5}, text |-> "", title |-> "",
      time |-> Aware(1)]}

\* The anchors of the pages handed to parse_substack_html: those with an href
\* on this site and text or a <time>.
PageAnchors == {a \in Anchors : a.href \in {"a", "c"}}

\* Posts of the archive API: with canonical_url, with url and another title,
\* with a slug only, without url and slug, with a number for url, with a
\* number for slug, and a str in place of a post.
ApiPosts ==
    {Post("a", Aware(1)),
     JDict(<<Pair("headline", JStr("Other")), Pair("url", JStr("a"))>>),
     JDict(<<Pair("title", JStr("T")), Pair("slug", JStr("c"))>>),
     JDict(<<Pair("title", JStr("T")), Pair("subtitle", JStr("s"))>>),
     JDict(<<Pair("title", JStr("T")), Pair("url", JNum)>>),
     JDict(<<Pair("title", JStr("T")), Pair("slug", JNum)>>),
     JStr("a")}

\* One extractor applied on its own to the soup of any page with up to
\* MaxBlocks blocks or up to MaxAnchors anchors, parse_substack_html applied
\* to a document and its items normalized as main does (line 355), or
\* normalize_posts to an object with up to MaxLen posts.
ExtractInit ==
    /\ MainOff
    /\ \/ /\ fn_pc = "parse_jsonld_posts"
          /\ fn_args \in {[soup |-> [jsonld |-> bs, anchors |-> <<>>, feed_link |-> FALSE],
                           base_url |-> "archive"] : bs \in SeqsUpTo(JsonBlocks, MaxBlocks)}
       \/ /\ fn_pc = "parse_archive_links"
          /\ fn_args \in {[soup |-> [jsonld |-> <<>>, anchors |-> as, feed_link |-> FALSE],
                           base_url |-> "archive"] : as \in SeqsUpTo(Anchors, MaxAnchors)}
       \/ /\ fn_pc = "parse_substack_html"
          /\ fn_args \in {[content |-> Doc(HtmlOpen, TRUE, <<>>,
                                           [jsonld |-> bs, anchors |-> as, feed_link |-> FALSE]),
                           page_url |-> "archive", limit |-> l] :
                              bs \in SeqsUpTo(PageBlocks, MaxBlocks),
                              as \in SeqsUpTo(PageAnchors, MaxAnchors),
                              l \in {MaxLimit, ITEM_LIMIT}}
       \/ /\ fn_pc = "normalize_posts"
          /\ fn_args \in {[obj |-> JDict(<<Pair("props", Posts(ps))>>), base_url |-> "origin"] :
                              ps \in SeqsUpTo(ApiPosts, MaxLen)}
    /\ fn_ret = <<>>
    /\ fn_ret2 = <<>>

parse_jsonld_posts_call ==
    /\ fn_pc = "parse_jsonld_posts"
    /\ fn_ret' = parse_jsonld_posts(fn_args.soup, fn_args.base_url)
    /\ fn_pc' = "parse_jsonld_posts:1"
    /\ UNCHANGED <<main_vars, fn_args, fn_ret2>>

parse_archive_links_call ==
    /\ fn_pc = "parse_archive_links"
    /\ fn_ret' = [exc |-> "none", val |-> parse_archive_links(fn_args.soup, fn_args.base_url)]
    /\ fn_pc' = "parse_archive_links:1"
    /\ UNCHANGED <<main_vars, fn_args, fn_ret2>>

parse_substack_html_call ==
    /\ fn_pc = "parse_substack_html"
    /\ fn_ret' = parse_substack_html(fn_args.content, fn_args.page_url)
    /\ fn_pc' = "parse_substack_html:1"
    /\ UNCHANGED <<main_vars, fn_args, fn_ret2>>

\* items = normalize_entries(html_items, limit=item_limit)
normalize_html_items ==
    /\ fn_pc = "parse_substack_html:1"
    /\ fn_ret.exc = "none"
    /\ fn_ret2' = normalize_entries(fn_ret.val, fn_args.limit)
    /\ fn_pc' = "parse_substack_html:2"
    /\ UNCHANGED <<main_vars, fn_args, fn_ret>>

normalize_posts_call ==
    /\ fn_pc = "normalize_posts"
    /\ fn_ret' = normalize_posts(fn_args.obj, fn_args.base_url)
    /\ fn_pc' = "normalize_posts:1"
    /\ UNCHANGED <<main_vars, fn_args, fn_ret2>>

ExtractNext ==
    \/ parse_jsonld_posts_call
    \/ parse_archive_links_call
    \/ parse_substack_html_call
    \/ normalize_html_items
    \/ normalize_posts_call

SpecExtract == ExtractInit /\ [][ExtractNext]_vars

\* The files ensure_dist can meet or make, relative to the working directory,
\* and what a file holds ("absent": there is no such file).
PublicFiles == {"static/styles.css", "static/app.js"}
DistFiles == {".nojekyll"} \cup PublicFiles
FileSystems ==
    {[public |-> pb, dist |-> ds] :
        pb \in [PublicFiles -> {"absent", "body{}", "x"}],
        ds \in [DistFiles -> {"absent", "", "old"}]}

\* ensure_dist(): DIST_DIR.mkdir(parents=True, exist_ok=True), then the empty
\* file dist/.nojekyll is written; the function returns None.
ensure_dist(fs) ==
    [ret |-> "None", fs |-> [fs EXCEPT !.dist[".nojekyll"] = ""]]

\* ensure_dist() in any working directory.
DistInit ==
    /\ MainOff
    /\ fn_pc = "ensure_dist"
    /\ fn_args \in {[fs |-> f] : f \in FileSystems}
    /\ fn_ret = <<>>
    /\ fn_ret2 = <<>>

ensure_dist_call ==
    /\ fn_pc = "ensure_dist"
    /\ fn_ret' = ensure_dist(fn_args.fs)
    /\ fn_pc' = "ensure_dist:1"
    /\ UNCHANGED <<main_vars, fn_args, fn_ret2>>

DistNext == ensure_dist_call

SpecDist == DistInit /\ [][DistNext]_vars

\* ------------------------------------------------------------------ claims

Finished == pc = "exited"

\* The run ended in Done: main() returned and a rendered page was written.
Done == Finished /\ exc.kind = "none"

NoTwoSameLink(its) ==
    \A i, j \in 1..Len(its) : i # j => its[i].link # its[j].link

\* C1: the list handed to the renderer never holds two records with the same
\* link (normalize_entries keeps one record per link, the first in input order).
C1_RenderedLinksUnique ==
    page.kind = "rendered" => NoTwoSameLink(page.items)

\* The direct fetch returned a payload that is not HTML and parses with at
\* least one entry (content, ctype are the standard path's fetch result; a
\* rendered fallback page has ctype text/html).
DirectFeedWithEntries ==
    /\ final_url \notin {"none", "rendered"}
    /\ ~is_html_payload(content.bytes, ctype)
    /\ parse_feed_bytes(content).exc = "none"
    /\ content.entries # <<>>

\* C2: when the direct fetch returned a non-HTML payload that parses with at
\* least one entry, a run that ends in Done has rendered exactly the
\* normalized entries of that feed, with rendering enabled or not.
C2_DirectFeedIsFinalList ==
    (Done /\ DirectFeedWithEntries)
        => page = Rendered(normalize_entries(content.entries, item_limit).val)

\* C3: with soft-fail off, no run writes a rendered page with zero records
\* (no run ends in Done with an empty list).
C3_NoEmptyDoneWithoutSoftFail ==
    (~SOFT_FAIL /\ page.kind = "rendered") => page.items # <<>>

BrowserCalls ==
    {"playwright_dom(handle)", "playwright_dom(feed_url)", "playwright_dom(archive)",
     "playwright_collect_archive"}
ExtractorCalls == {"parse_substack_html(archive)", "parse_substack_html(content)"}

\* C4: with rendering not enabled, no rendered-page call is made and no HTML
\* extractor is run at any point of the run.
C4_NoBrowserWithoutPlaywright ==
    ~USE_PLAYWRIGHT =>
        \A i \in 1..Len(calls) : calls[i] \notin BrowserCalls \cup ExtractorCalls

\* C5: the only error that leaves main() is the no-items error, and only when
\* soft-fail is off; a failed acquisition step never ends the run itself.
C5_OnlyNoItemsReachesTop ==
    exc.kind # "none" => (exc.kind = "NoItems" /\ ~SOFT_FAIL)

\* C6: with soft-fail on, a run that ends with zero records has not raised the
\* no-items error and has not signalled a fatal outcome: the process ends with
\* status 0 and dist/index.html holds the rendered page with an empty item
\* list, or the placeholder page.
C6_SoftFailEndsWithPage ==
    (Finished /\ SOFT_FAIL /\ items = <<>>) =>
        /\ exit_code = 0
        /\ exc.kind # "NoItems"
        /\ IF exc.kind = "none"
           THEN page = Rendered(<<>>)
           ELSE page.kind = "placeholder"

\* A soft-fail run in which every strategy came back empty and nothing raised.
C6_Witness ==
    /\ Finished /\ SOFT_FAIL /\ items = <<>>
    /\ exc.kind = "none"
    /\ page = Rendered(<<>>)
    /\ "playwright_dom(archive)" \in {calls[i] : i \in 1..Len(calls)}

\* The index of the first 200 among the responses of the call, 0 if none.
First200 ==
    IF \E k \in 1..Len(responses) : responses[k].status = 200
    THEN CHOOSE k \in 1..Len(responses) :
            /\ responses[k].status = 200
            /\ \A j \in 1..(k - 1) : responses[j].status # 200
    ELSE 0

\* C7: one http_get call issues at most 3 requests, each request after the
\* first follows a 403 or 429, and the call returns the content, content type
\* and url of the first 200 response, which is the last request it made; it
\* returns exactly when a 200 came among the first 3 responses with only
\* 403/429 before it.
C7_AtMostThreeFirst200 ==
    /\ Len(responses) <= 3
    /\ \A i \in 1..(Len(responses) - 1) : responses[i].status \in {403, 429}
    /\ http_state = "running" => Len(responses) < 3
    /\ http_state = "returned" =>
          /\ First200 = Len(responses)
          /\ http_ret = [content |-> responses[First200].content,
                         ctype |-> responses[First200].ctype,
                         url |-> responses[First200].url]
    /\ http_state = "raised" => First200 = 0
    /\ http_state \in {"returned", "raised"} =>
          (http_state = "returned" <=>
             \E k \in 1..3 : /\ k <= Len(responses)
                             /\ responses[k].status = 200
                             /\ \A j \in 1..(k - 1) : responses[j].status \in {403, 429})

\* A call that returned on its third request, after a 403 and a 429.
C7_Witness ==
    /\ http_state = "returned"
    /\ Len(responses) = 3
    /\ responses[1].status = 403
    /\ responses[2].status = 429
    /\ http_ret.content = Feed3

\* C8: a response whose status is not 200, 403 or 429 ends the call at once
\* with an error: it is the last request of the call and no delay is waited
\* after it, whether it was the first, second or third response.
C8_OtherStatusFailsAtOnce ==
    \A i \in 1..Len(responses) :
        responses[i].status \notin {200, 403, 429} =>
            /\ i = Len(responses)
            /\ http_state = "raised"
            /\ Len(sleeps) = i - 1

\* A call ended by a 500 on its third request.
C8_Witness ==
    /\ http_state = "raised"
    /\ Len(responses) = 3
    /\ responses[3].status = 500
    /\ Len(sleeps) = 2

\* C9: the error http_get raises carries the requested url and the status of
\* the last response of the call, and main() re-raises it unchanged.
C9_ErrorCarriesLastStatus ==
    /\ http_state = "raised" =>
          /\ http_exc.kind = "FetchError"
          /\ http_exc.url = http_url
          /\ http_exc.status = responses[Len(responses)].status
    /\ exc.kind = "FetchError" => exc.url = "feed_url" /\ exc.status \in Statuses \ {200}

\* A call that failed on a status different from that of its first response.
C9_Witness ==
    /\ http_state = "raised"
    /\ Len(responses) = 3
    /\ responses[1].status = 403
    /\ responses[3].status = 404
    /\ http_exc.status = 404

\* C10: the base delay waited before the second retry is strictly larger than
\* the base delay waited before the first retry of the same call.
C10_DelayGrows ==
    Len(sleeps) >= 2 => sleeps[2].base > sleeps[1].base

\* normalize_entries has returned a list (the sort did not raise).
NormalizeReturned ==
    /\ fn_pc \in {"normalize_entries:1", "normalize_entries:2"}
    /\ fn_ret.exc = "none"

Dated(r) == r.date.kind # "none"

\* C11: the list normalize_entries returns is ordered by parsed date
\* descending, and every record with a parsed date comes before every record
\* without one (dates of the model lie after datetime.min).
C11_SortedByDateDesc ==
    NormalizeReturned =>
        LET out == fn_ret.val IN
        \A i, j \in 1..Len(out) : i < j =>
            /\ (Dated(out[i]) /\ Dated(out[j])) => out[i].date.t >= out[j].date.t
            /\ ~Dated(out[i]) => ~Dated(out[j])

\* An undated record given first and two dated ones given oldest first come
\* back newest first, the undated one last.
C11_Witness ==
    /\ NormalizeReturned
    /\ fn_args.entries = <<Undated("d"), Entry("a", Aware(1)), Entry("b", Aware(2))>>
    /\ fn_args.limit = 3
    /\ fn_ret.val = <<NormOne(Entry("b", Aware(2))), NormOne(Entry("a", Aware(1))),
                      NormOne(Undated("d"))>>

\* The date a record sorts by: its parsed date, or the minimum timestamp.
Rank(r) == IF Dated(r) THEN r.date.t ELSE DatetimeMin

\* C12: for a limit >= 0 normalize_entries returns at most `limit` records and
\* never more than it was given; what it returns is the first `limit` records
\* of the whole date-sorted sequence, so no record is dropped while an older
\* one is kept.
C12_TruncatedAfterSort ==
    (fn_pc = "normalize_entries:1" /\ fn_ret.exc = "none") =>
        LET given == fn_args.entries
            limit == fn_args.limit
            out == fn_ret.val
            sorted == normalize_entries(given, Len(given)).val
        IN /\ Len(out) <= limit
           /\ Len(out) <= Len(given)
           /\ Len(out) = (IF limit < Len(given) THEN limit ELSE Len(given))
           /\ out = SubSeq(sorted, 1, Len(out))
           /\ \A i \in 1..Len(given) :
                 (\E k \in 1..Len(out) : Rank(out[k]) < Rank(NormOne(given[i])))
                    => \E k \in 1..Len(out) : out[k] = NormOne(given[i])

\* Three records with the newest given last and a limit of 1: the newest one
\* is the one returned.
C12_Witness ==
    /\ fn_pc = "normalize_entries:1"
    /\ fn_args.entries = <<Entry("a", Aware(1)), Undated("d"), Entry("b", Aware(2))>>
    /\ fn_args.limit = 1
    /\ fn_ret = [exc |-> "none", val |-> <<NormOne(Entry("b", Aware(2)))>>]

\* C13: normalize_entries applied with the same limit to the list it returned
\* returns the same records in the same order: same title, link, date and
\* summary for every record.
C13_Idempotent ==
    fn_pc = "normalize_entries:2" =>
        /\ fn_ret2.exc = "none"
        /\ Len(fn_ret2.val) = Len(fn_ret.val)
        /\ \A i \in 1..Len(fn_ret.val) :
              /\ fn_ret2.val[i].title = fn_ret.val[i].title
              /\ fn_ret2.val[i].link = fn_ret.val[i].link
              /\ fn_ret2.val[i].date = fn_ret.val[i].date
              /\ fn_ret2.val[i].summary = fn_ret.val[i].summary

\* Byte b is the letter c (given in lower case) in either case, or is c.
SameLetter(b, c) == b = c \/ (c \in 97..122 /\ b = c - 32)

\* The bytes of bs from position k + 1 on read m, whatever the letter case.
ReadsAt(bs, k, m) ==
    /\ k + Len(m) <= Len(bs)
    /\ \A j \in 1..Len(m) : SameLetter(bs[k + j], m[j])

\* The header value contains "html" in some letter case.
CtypeSaysHtml(ct) == \E k \in 0..Len(ct) : ReadsAt(ct, k, <<104, 116, 109, 108>>)

\* After leading whitespace, the content reads "<!doctype html" or "<html",
\* all of it within the first 200 bytes.
HeadSaysHtml(bs) ==
    \E k \in 0..Len(bs) :
        /\ \A j \in 1..k : bs[j] \in {9, 10, 11, 12, 13, 32}
        /\ \E m \in {DoctypeHtml, HtmlTag} : ReadsAt(bs, k, m) /\ k + Len(m) <= 200

\* C14: is_html_payload is true exactly when the content type contains "html"
\* in any letter case or the first 200 bytes of the content, stripped of
\* leading whitespace and lowercased, start with "<!doctype html" or "<html";
\* so it is true for content that begins with <!DOCTYPE html> in any letter
\* case, whatever the content type.
C14_HtmlExactly ==
    fn_pc = "is_html_payload:1" =>
        /\ fn_ret = (CtypeSaysHtml(fn_args.content_type) \/ HeadSaysHtml(fn_args.content))
        /\ ReadsAt(fn_args.content, 0, DoctypeHtml \o <<62>>) => fn_ret = TRUE

\* A mixed-case doctype behind six whitespace bytes of all kinds, sent as
\* application/xml, is classified as HTML.
C14_Witness ==
    /\ fn_pc = "is_html_payload:1"
    /\ fn_args.content = Pad(6) \o <<60, 33, 68, 111, 99, 84, 121, 112, 101, 32, 72, 84, 77, 76, 62>>
    /\ fn_args.content_type = <<97, 112, 112, 108, 105, 99, 97, 116, 105, 111, 110, 47, 120, 109, 108>>
    /\ fn_ret = TRUE

\* C15: parse_feed_bytes fails exactly when feedparser flags the document as
\* malformed and finds no entry in it; otherwise it returns the document with
\* all its entries (a flagged document with entries, a well-formed one with
\* none).
C15_FailsOnlyOnBozoWithoutEntries ==
    fn_pc = "parse_feed_bytes:1" =>
        LET doc == fn_args.xml_bytes IN
        /\ (fn_ret.exc # "none") <=> (doc.bozo /\ Len(doc.entries) = 0)
        /\ fn_ret.exc # "none" => fn_ret.exc = "FeedParseError"
        /\ fn_ret.exc = "none" => fn_ret.entries = doc.entries

\* A flagged document with two entries is accepted with both.
C15_Witness ==
    /\ fn_pc = "parse_feed_bytes:1"
    /\ fn_args.xml_bytes.bozo
    /\ fn_args.xml_bytes.entries = <<Entry("a", Aware(1)), Undated("d")>>
    /\ fn_ret = [exc |-> "none", entries |-> <<Entry("a", Aware(1)), Undated("d")>>]

\* The bytes 0x00-0x08, 0x0B, 0x0C, 0x0E-0x1F.
InvalidInXml ==
    {0, 1, 2, 3, 4, 5, 6, 7, 8, 11, 12, 14, 15, 16, 17, 18, 19, 20, 21, 22, 23, 24, 25, 26,
     27, 28, 29, 30, 31}

\* The positions of bs that hold a byte to keep.
KeptAt(bs) == {i \in 1..Len(bs) : bs[i] \notin InvalidInXml}

FeedParseCalls == {"parse_feed_bytes(pub)", "parse_feed_bytes(content)"}

\* C16: at every feed parse of a run, the bytes handed to the parser are the
\* fetched bytes without the bytes 0x00-0x08, 0x0B, 0x0C, 0x0E-0x1F: none of
\* these is left, every other byte (tab, LF and CR too) is there, in the
\* order fetched; and there is no feed parse but these.
C16_ParserGetsSanitizedBytes ==
    /\ Cardinality({i \in 1..Len(calls) : calls[i] \in FeedParseCalls}) = Len(feed_parses)
    /\ \A p \in 1..Len(feed_parses) :
          LET fetched == feed_parses[p].fetched
              given == feed_parses[p].given
          IN /\ \A i \in 1..Len(given) : given[i] \notin InvalidInXml
             /\ Len(given) = Cardinality(KeptAt(fetched))
             /\ \A i \in KeptAt(fetched) :
                   given[Cardinality({j \in KeptAt(fetched) : j <= i})] = fetched[i]

\* A feed fetched with NUL, BS, VT, FF, SO and US among its bytes reaches the
\* parser without them and with its tab, LF, CR and space.
C16_Witness ==
    /\ Len(feed_parses) = 1
    /\ feed_parses[1].fetched = XmlDeclDirty
    /\ feed_parses[1].given = XmlDecl \o <<9, 10, 13, 32>>
    /\ feed_parses[1].exc = "none"

\* The direct fetch of the configured feed URL has failed (the rendered
\* fallback is under way, or has returned a page, or has raised; or the fetch
\* error has left main()), or it has returned an HTML payload.
DirectFailedOrHtml ==
    \/ pc = "fallback_dom"
    \/ final_url = "rendered"
    \/ exc.kind \in {"RenderError", "FetchError"}
    \/ /\ final_url \notin {"none", "rendered"}
       /\ is_html_payload(content.bytes, ctype)

\* C17: no rendered-page call (playwright_dom, playwright_collect_archive) is
\* made before the direct fetch of the feed URL has failed or has returned an
\* HTML payload; so a run whose direct fetch returns a feed that is not HTML
\* makes no rendered-page call at all.
C17_RenderingOnlyAfterDirectFetch ==
    (\E i \in 1..Len(calls) : calls[i] \in BrowserCalls) => DirectFailedOrHtml

\* The feed served at the link an HTML page declares: not HTML, well-formed,
\* two entries.
LinkedFeed == Doc(XmlDecl, FALSE, <<Entry("a", Aware(1)), Entry("b", Aware(2))>>, NoPage)

\* The direct fetch returned an HTML page that declares an alternate feed
\* link.
DirectHtmlDeclaresFeed ==
    /\ final_url \notin {"none", "rendered"}
    /\ is_html_payload(content.bytes, ctype)
    /\ content.page.feed_link

\* C18: when the direct fetch returned an HTML page that declares an
\* alternate feed link, and the feed at that link is not HTML and parses with
\* entries, the run ends in Done with the entries of that feed as its final
\* records, and no HTML extractor is run.
C18_DiscoveredFeedWins ==
    (Finished /\ DirectHtmlDeclaresFeed) =>
        /\ Done
        /\ page = Rendered(normalize_entries(parse_feed_bytes(LinkedFeed).entries,
                                             item_limit).val)
        /\ \A i \in 1..Len(calls) : calls[i] \notin ExtractorCalls

ScrapeCalls == {"playwright_dom(archive)"} \cup ExtractorCalls

\* C19: when the archive capture yielded at least one record, the run ends
\* in Done with the normalized capture records as its final list, and neither
\* the archive DOM scrape nor an HTML extractor runs after the capture.
C19_CaptureEndsTheRun ==
    api_items # <<>> =>
        /\ \A i \in 1..Len(calls) : calls[i] \notin ScrapeCalls
        /\ Finished =>
              /\ Done
              /\ page = Rendered(normalize_entries(api_items, item_limit).val)

Called(c) == \E i \in 1..Len(calls) : calls[i] = c

\* C20: in the archive DOM scrape, when the extractors found no record on the
\* rendered archive page (it could not be rendered, or it was rendered and
\* held no post), the extractors are run on the page obtained at first before
\* the run concludes that there are no items.
C20_OriginalPageIsLastResort ==
    (Called("playwright_dom(archive)") /\ items = <<>>)
        => Called("parse_substack_html(content)")

\* parse_substack_html has returned without an exception.
HtmlReturned == fn_pc \in {"parse_substack_html:1", "parse_substack_html:2"} /\ fn_ret.exc = "none"
JsonldOf(a) == parse_jsonld_posts(a.content.page, a.page_url).val
AnchorsOf(a) == parse_archive_links(a.content.page, a.page_url)

\* C21: parse_substack_html returns the output of the structured-data
\* extractor when that is not empty, and the output of the anchor extractor
\* only when the structured-data extractor found nothing; records of the
\* anchor extractor are never in the result otherwise.
C21_FirstNonEmptyExtractorWins ==
    HtmlReturned =>
        fn_ret.val = IF JsonldOf(fn_args) # <<>> THEN JsonldOf(fn_args) ELSE AnchorsOf(fn_args)

\* Both extractors find posts on the page; the result is the structured data.
C21_Witness ==
    /\ HtmlReturned
    /\ JsonldOf(fn_args) # <<>>
    /\ AnchorsOf(fn_args) # <<>>
    /\ fn_ret.val = JsonldOf(fn_args)
    /\ \E i \in 1..Len(AnchorsOf(fn_args)) :
          \A k \in 1..Len(fn_ret.val) : fn_ret.val[k] # AnchorsOf(fn_args)[i]

\* The records of the source objects of a page or an API object, in the order
\* in which the objects stand in the document: the JSON of the blocks walked
\* first value first, the anchors that any selector matches from top to
\* bottom, the posts of an API object as walk meets them.
RECURSIVE JsonldDocOrder(_, _)
JsonldDocOrder(nodes, base_url) ==
    IF nodes = <<>> THEN <<>>
    ELSE LET node == Head(nodes)
             own == IF node.k = "dict"
                    THEN NodeItems(node, base_url).val \o JsonldDocOrder(JValues(node), base_url)
                    ELSE IF node.k = "list" THEN JsonldDocOrder(node.v, base_url)
                    ELSE <<>>
         IN own \o JsonldDocOrder(Tail(nodes), base_url)
RECURSIVE AnchorsDocOrder(_, _)
AnchorsDocOrder(anchors, base_url) ==
    IF anchors = <<>> THEN <<>>
    ELSE LET a == Head(anchors) IN
         (IF a.matches # {} /\ a.href # "" /\ ~a.external
          THEN <<AnchorItem(a, base_url)>> ELSE <<>>)
         \o AnchorsDocOrder(Tail(anchors), base_url)

\* An extractor has returned a list, and the records of its source objects
\* in document order.
ExtractorReturned ==
    /\ fn_pc \in {"parse_jsonld_posts:1", "parse_archive_links:1", "normalize_posts:1"}
    /\ fn_ret.exc = "none"
SourceRecords ==
    CASE fn_pc = "parse_jsonld_posts:1" -> JsonldDocOrder(fn_args.soup.jsonld, fn_args.base_url)
      [] fn_pc = "parse_archive_links:1" -> AnchorsDocOrder(fn_args.soup.anchors, fn_args.base_url)
      [] OTHER -> walk(fn_args.obj, fn_args.base_url).val

LinksOf(its) == {its[i].link : i \in 1..Len(its)}
LinkSeq(its) == [i \in 1..Len(its) |-> its[i].link]
NoRepeatedLink(its) == \A i, j \in 1..Len(its) : its[i].link = its[j].link => i = j

\* The structured data of the page names the posts a, a, b, c, d, and the
\* items of the page were normalized with the limit of a run that sets none.
FiveLinksScenario ==
    /\ fn_pc = "parse_substack_html:2"
    /\ fn_args.limit = ITEM_LIMIT
    /\ LinkSeq(JsonldDocOrder(fn_args.content.page.jsonld, fn_args.page_url))
          = <<"a", "a", "b", "c", "d">>

\* C22 (amended): the output of each extractor has no two records with the
\* same link and one record of the source for every link of the source; and
\* when the structured data of the rendered archive page names the posts
\* a, a, b, c, d, the normalized list has exactly 4 records.
C22_OneRecordPerLink ==
    /\ ExtractorReturned =>
          /\ NoRepeatedLink(fn_ret.val)
          /\ LinksOf(fn_ret.val) = LinksOf(SourceRecords)
          /\ \A k \in 1..Len(fn_ret.val) :
                \E i \in 1..Len(SourceRecords) : SourceRecords[i] = fn_ret.val[k]
    /\ FiveLinksScenario => fn_ret2.exc = "none" /\ Len(fn_ret2.val) = 4

\* The five-links page has been extracted and normalized: 4 records.
C22_Witness ==
    /\ FiveLinksScenario
    /\ Len(fn_ret.val) = 4
    /\ Len(fn_ret2.val) = 4

\* C22 as stated: the record kept for a link is the first one with that link
\* in document order.
C22_KeepsFirstInDocumentOrder ==
    /\ ExtractorReturned =>
          /\ NoRepeatedLink(fn_ret.val)
          /\ \A k \in 1..Len(fn_ret.val) :
                \E i \in 1..Len(SourceRecords) :
                   /\ SourceRecords[i] = fn_ret.val[k]
                   /\ \A j \in 1..(i - 1) : SourceRecords[j].link # SourceRecords[i].link
    /\ FiveLinksScenario => fn_ret2.exc = "none" /\ Len(fn_ret2.val) = 4

\* C23: every HTML extractor (parse_jsonld_posts, parse_archive_links, and
\* parse_substack_html over them) returns a list for every document and never
\* fails, whatever the shape of the JSON in the ld+json blocks.
C23_ExtractorsNeverFail ==
    fn_pc \in {"parse_jsonld_posts:1", "parse_archive_links:1", "parse_substack_html:1"}
        => fn_ret.exc = "none"

\* C24: every record normalize_entries returns has a non-empty title; a
\* source record whose title is missing or "" gets the title "Untitled".
C24_TitleNeverEmpty ==
    NormalizeReturned => \A i \in 1..Len(fn_ret.val) : fn_ret.val[i].title # ""

\* The steps of main() in program order.
PcRank(p) ==
    CASE p = "start" -> 0
      [] p = "resolve" -> 1
      [] p = "pub_fetch" -> 2
      [] p = "direct_fetch" -> 3
      [] p = "fallback_dom" -> 4
      [] p = "archive" -> 5
      [] p = "fill" -> 6
      [] p = "check" -> 7
      [] p \in {"returned", "raised"} -> 8
      [] OTHER -> 9

\* No step of the cascade was executed twice.
NoCallTwice == \A i, j \in 1..Len(calls) : calls[i] = calls[j] => i = j

\* C25: every run terminates (it ends in Done or Failed); every step moves
\* main() forward in program order or is one more request of the fetch in
\* progress, no step of the cascade is executed twice, and no fetch makes
\* more than 3 requests.
C25_EveryRunTerminates ==
    /\ <>Finished
    /\ [][\/ PcRank(pc') > PcRank(pc)
          \/ pc' = pc /\ pc \in {"pub_fetch", "direct_fetch"}
                /\ Len(responses') = Len(responses) + 1]_vars
    /\ [](Len(responses) <= 3 /\ NoCallTwice)

\* A run that went through the whole cascade and ended: the direct fetch made
\* its 3 requests in vain, the page was rendered, the archive was captured
\* and scraped.
C25_Witness ==
    /\ Finished
    /\ Called("playwright_dom(feed_url)")
    /\ Called("playwright_collect_archive")
    /\ Called("playwright_dom(archive)")
    /\ Called("parse_substack_html(content)")

\* The working directory has a public/ directory with files under static/.
HasPublic(fs) == \E f \in PublicFiles : fs.public[f] # "absent"

\* C26: after ensure_dist() in a directory that has public/, dist/ holds
\* .nojekyll, every file under public/static is in dist/static with the same
\* content, and the return value names "public".
C26_PublicAssetsCopied ==
    (fn_pc = "ensure_dist:1" /\ HasPublic(fn_args.fs)) =>
        /\ fn_ret.fs.dist[".nojekyll"] # "absent"
        /\ \A f \in PublicFiles :
              fn_args.fs.public[f] # "absent" => fn_ret.fs.dist[f] = fn_args.fs.public[f]
        /\ fn_ret.ret = "public"

\* The value of the first candidate key, in the order published, updated,
\* created, datePublished, that holds a non-empty value (None when no key
\* does), and the date the claim gives a record: that value when it parses,
\* no date when it does not.
FirstCandidate(e) ==
    LET K == {i \in 1..Len(DateKeys) : Truthy(Get(e, DateKeys[i], NoneDate))} IN
    IF K = {} THEN NoneDate
    ELSE Get(e, DateKeys[CHOOSE i \in K : \A j \in K : i <= j], NoneDate)
DateOfFirstCandidate(e) ==
    IF Parses(FirstCandidate(e)) THEN FirstCandidate(e) ELSE NoneDate

\* C27: the date of every returned record is the parse of the first
\* non-empty candidate of its source record; when that candidate does not
\* parse the record has no date, whatever the later candidates hold.
C27_FirstCandidateDecides ==
    (fn_pc = "normalize_entries:1" /\ fn_ret.exc = "none") =>
        \A k \in 1..Len(fn_ret.val) :
            \E i \in 1..Len(fn_args.entries) :
                /\ Get(fn_args.entries[i], "link", NoneLink) = fn_ret.val[k].link
                /\ fn_ret.val[k].date = DateOfFirstCandidate(fn_args.entries[i])

\* C28: normalize_entries returns a list for every input, whatever mix of
\* missing, unparsable, zoned and zone-less dates its records hold.
C28_NormalizeNeverFails ==
    fn_pc = "normalize_entries:1" => fn_ret.exc = "none"

\* The attempt on the publication's feed has ended and has not produced a
\* page: the fetch raised, or the payload is HTML, or the parse or the
\* normalization raised.
PubFetchFailed == pc = "pub_fetch" /\ http_state = "raised"
PubPayloadHtml ==
    /\ pc = "pub_fetch"
    /\ http_state = "returned"
    /\ is_html_payload(http_ret.content.bytes, http_ret.ctype)
PubParseFailed ==
    /\ pc = "pub_fetch"
    /\ http_state = "returned"
    /\ ~is_html_payload(http_ret.content.bytes, http_ret.ctype)
    /\ \/ parse_feed_bytes(Cleaned(http_ret.content)).exc # "none"
       \/ normalize_entries(parse_feed_bytes(Cleaned(http_ret.content)).entries,
                            item_limit).exc # "none"

\* C29: when the attempt on the publication's /feed fails in any way (fetch
\* error, HTML payload, parse error), the next step of the run is the
\* standard direct fetch of the feed url, and no exception is raised.
C29_PubFailureNotFatal ==
    [][(PubFetchFailed \/ PubPayloadHtml \/ PubParseFailed) =>
          /\ pc' = "direct_fetch"
          /\ http_state' = "running"
          /\ http_url' = "feed_url"
          /\ responses' = <<>>
          /\ exc' = NoExc]_vars

\* The publication's feed did not parse, and the run ended in Done on the
\* feed of the standard path.
C29_Witness ==
    /\ Done
    /\ pub_base = "pub"
    /\ Len(feed_parses) = 2
    /\ feed_parses[1].exc # "none"
    /\ page.kind = "rendered"
    /\ page.items # <<>>

\* C30: every record returned by parse_jsonld_posts and by normalize_posts has
\* a link made from a url or slug of its source object; the base url of the
\* page, which no source object of the samples names, is the link of none.
C30_BaseUrlNeverALink ==
    (fn_pc \in {"parse_jsonld_posts:1", "normalize_posts:1"} /\ fn_ret.exc = "none") =>
        \A i \in 1..Len(fn_ret.val) : fn_ret.val[i].link # fn_args.base_url

====
